---- MODULE Spec2Model ----
(***************************************************************************)
(* BeatLink backend: the /scan pipeline of app.py and its three services   *)
(* (YouTubeService, ACRCloudService, SpotifyService).                      *)
(*                                                                         *)
(* Each scan is one request handled by scan_beat.  Its position is pc[s];  *)
(* every access to state shared between requests (the temporary directory  *)
(* and the SpotifyService token slot) is a step of its own, so that        *)
(* requests served by different threads interleave where the code lets     *)
(* them.  Network calls are steps whose outcome is drawn from the set of   *)
(* outcomes the code distinguishes.  A file operation raises exactly when  *)
(* the file it needs is not there.                                         *)
(***************************************************************************)
EXTENDS Integers, Sequences, FiniteSets, TLC

\* ------------------------------------------------------------------ bounds
NScans == 2
MaxMusic == 2
MaxTicks == 2

\* ------------------------------------------------------- program constants
IdLen == 11
MinScore == 85
TokenMargin == 60
DefaultExpiresIn == 3600

Scans == 1..NScans

\* ---------------------------------------------------------------- strings
\* A string is a sequence of one-character strings.
Digits == {"0", "1", "2", "3", "4", "5", "6", "7", "8", "9"}
Lower ==
  {"a", "b", "c", "d", "e", "f", "g", "h", "i", "j", "k", "l", "m",
   "n", "o", "p", "q", "r", "s", "t", "u", "v", "w", "x", "y", "z"}
Upper ==
  {"A", "B", "C", "D", "E", "F", "G", "H", "I", "J", "K", "L", "M",
   "N", "O", "P", "Q", "R", "S", "T", "U", "V", "W", "X", "Y", "Z"}

\* The character class [0-9A-Za-z_-].
IdChars == Digits \cup Lower \cup Upper \cup {"_", "-"}

\* u[i .. i+Len(lit)-1] = lit
LitAt(u, i, lit) ==
  /\ i >= 1
  /\ i + Len(lit) - 1 <= Len(u)
  /\ \A k \in 1..Len(lit) : u[i + k - 1] = lit[k]

\* [0-9A-Za-z_-]{11} matches at position i
IdAt(u, i) ==
  /\ i >= 1
  /\ i + IdLen - 1 <= Len(u)
  /\ \A k \in 0..(IdLen - 1) : u[i + k] \in IdChars

\* Where the capture group of a pattern starts when the pattern matches at
\* position i, 0 when it does not match there.
\* Pattern 1: (?:v=|\/)([0-9A-Za-z_-]{11})
Pat1At(u, i) ==
  IF LitAt(u, i, <<"v", "=">>) /\ IdAt(u, i + 2) THEN i + 2
  ELSE IF LitAt(u, i, <<"/">>) /\ IdAt(u, i + 1) THEN i + 1
  ELSE 0

\* Pattern 2: youtu\.be\/([0-9A-Za-z_-]{11})
Pat2At(u, i) ==
  IF LitAt(u, i, <<"y", "o", "u", "t", "u", ".", "b", "e", "/">>) /\ IdAt(u, i + 9)
  THEN i + 9 ELSE 0

\* Pattern 3: ^([0-9A-Za-z_-]{11})$
Pat3At(u, i) ==
  IF i = 1 /\ Len(u) = IdLen /\ IdAt(u, 1) THEN 1 ELSE 0

\* re.search: the leftmost position at which the pattern matches.
Search1(u) ==
  LET hits == {i \in 1..Len(u) : Pat1At(u, i) # 0}
  IN IF hits = {} THEN 0
     ELSE Pat1At(u, CHOOSE i \in hits : \A j \in hits : i <= j)

Search2(u) ==
  LET hits == {i \in 1..Len(u) : Pat2At(u, i) # 0}
  IN IF hits = {} THEN 0
     ELSE Pat2At(u, CHOOSE i \in hits : \A j \in hits : i <= j)

Search3(u) == Pat3At(u, 1)

NoId == <<>>

\* YouTubeService._extract_video_id: the patterns in order, first match wins.
ExtractVideoId(u) ==
  LET g == IF Search1(u) # 0 THEN Search1(u)
           ELSE IF Search2(u) # 0 THEN Search2(u)
           ELSE Search3(u)
  IN IF g = 0 THEN NoId ELSE SubSeq(u, g, g + IdLen - 1)

\* ------------------------------------------------------------ request URLs
IdA == [k \in 1..IdLen |-> "a"]
IdB == <<"B", "7", "_", "-", "x", "Y", "z", "0", "1", "Q", "w">>

WatchPrefix ==
  <<"h", "t", "t", "p", "s", ":", "/", "/", "w", "w", "w", ".", "y", "o", "u",
    "t", "u", "b", "e", ".", "c", "o", "m", "/", "w", "a", "t", "c", "h", "?",
    "v", "=">>
ShortPrefix ==
  <<"h", "t", "t", "p", "s", ":", "/", "/", "y", "o", "u", "t", "u", ".", "b",
    "e", "/">>

AttributionPrefix ==
  <<"h", "t", "t", "p", "s", ":", "/", "/", "w", "w", "w", ".", "y", "o",
    "u", "t", "u", "b", "e", ".", "c", "o", "m", "/", "a", "t", "t", "r",
    "i", "b", "u", "t", "i", "o", "n", "_", "l", "i", "n", "k", "?", "v", "=">>
SharePrefix ==
  <<"h", "t", "t", "p", "s", ":", "/", "/", "w", "w", "w", ".", "y", "o",
    "u", "t", "u", "b", "e", ".", "c", "o", "m", "/", "w", "a", "t", "c",
    "h", "?", "f", "e", "a", "t", "u", "r", "e", "=", "s", "h", "a", "r",
    "e", "&", "v", "=">>
ProfileUrl ==
  <<"h", "t", "t", "p", "s", ":", "/", "/", "s", "o", "u", "n", "d", "c",
    "l", "o", "u", "d", ".", "c", "o", "m", "/", "s", "o", "m", "e", "-",
    "a", "r", "t", "i", "s", "t", "-", "n", "a", "m", "e", "/", "b", "e",
    "a", "t">>
TooShortUrl ==
  <<"h", "t", "t", "p", "s", ":", "/", "/", "w", "w", "w", ".", "y", "o",
    "u", "t", "u", "b", "e", ".", "c", "o", "m", "/", "w", "a", "t", "c",
    "h", "?", "v", "=", "s", "h", "o", "r", "t">>

\* The values of youtube_url that are strings: a watch URL, a short link and a
\* watch URL of a second video, a text that is no URL, a watch URL under
\* /attribution_link, the page of a profile on another site, a bare
\* identifier, a watch URL with a parameter before v=, and a watch URL whose
\* v= value has fewer than 11 characters.
UrlTable ==
  << WatchPrefix \o IdA,
     ShortPrefix \o IdA,
     WatchPrefix \o IdB,
     <<"n", "o", "t", " ", "a", " ", "u", "r", "l">>,
     AttributionPrefix \o IdA,
     ProfileUrl,
     IdB,
     SharePrefix \o IdB,
     TooShortUrl >>

Urls == 1..Len(UrlTable)

\* A youtube_url whose JSON value is not a string (a number, null).
NonStringUrl == Len(UrlTable) + 1

\* _extract_video_id applied to each URL of the table.
VideoIdTable == [n \in Urls |-> ExtractVideoId(UrlTable[n])]

VideoIdOf(n) == VideoIdTable[n]

VideoIds == {VideoIdOf(n) : n \in Urls} \ {NoId}

\* ------------------------------------------------------------------- files
\* The files download_audio names after the video id, in tempfile.gettempdir().
RawPath(v) == <<"raw", v>>
Mp3Path(v) == <<"mp3", v>>
Paths == {RawPath(v) : v \in VideoIds} \cup {Mp3Path(v) : v \in VideoIds}
NoPath == <<>>

\* ------------------------------------------------------- upstream payloads
\* What the metadata API yields once parsed (get_video_info's success value).
NoInfo == [title |-> "", author |-> "", views |-> 0, thumbnail |-> ""]
Snippets ==
  { [title |-> "Beat A", author |-> "Chan", views |-> 0, thumbnail |-> ""],
    [title |-> "Beat B", author |-> "Chan", views |-> 12, thumbnail |-> "hq.jpg"] }

\* One entry of metadata.music in a fingerprint response: the title, the
\* artists' names, the score and the catalog track id ("" when
\* external_metadata carries none).
Scores == {MinScore - 1, MinScore, MinScore + 1}
MusicItems ==
  [title : {"Song"}, artists : {<<"Ann", "Bob">>}, score : Scores, spotify : {"", "trk"}]

\* ', '.join(names)
RECURSIVE JoinNames(_)
JoinNames(names) ==
  IF names = <<>> THEN <<>>
  ELSE IF Len(names) = 1 THEN names
  ELSE <<Head(names), ", ">> \o JoinNames(Tail(names))

RECURSIVE SeqsUpTo(_, _)
SeqsUpTo(S, n) ==
  IF n = 0 THEN {<<>>}
  ELSE LET shorter == SeqsUpTo(S, n - 1)
       IN shorter \cup {Append(q, x) : q \in {r \in shorter : Len(r) = n - 1}, x \in S}

MusicLists == SeqsUpTo(MusicItems, MaxMusic)

\* identify_audio's match for one music entry.
MatchOf(m) ==
  [title |-> m.title,
   artists |-> JoinNames(m.artists),
   score |-> m.score,
   spotify_id |-> IF m.spotify # "" THEN <<"spotify", "track", m.spotify>> ELSE <<>>]

\* FilterMatches with the boundary score dropped (score <= 85 skipped).
RECURSIVE FilterMatchesStrict(_)
FilterMatchesStrict(ml) ==
  IF ml = <<>> THEN <<>>
  ELSE IF Head(ml).score <= MinScore THEN FilterMatchesStrict(Tail(ml))
  ELSE <<MatchOf(Head(ml))>> \o FilterMatchesStrict(Tail(ml))

\* identify_audio, the loop over music_list: entries with score < 85 are skipped.
RECURSIVE FilterMatches(_)
FilterMatches(ml) ==
  IF ml = <<>> THEN <<>>
  ELSE IF Head(ml).score < MinScore THEN FilterMatches(Tail(ml))
  ELSE <<MatchOf(Head(ml))>> \o FilterMatches(Tail(ml))

\* Outcomes of the fingerprint request that identify_audio tells apart.
AcrOutcomes ==
  {"timeout", "error", "http_error", "malformed",
   "code_1001", "code_3001", "code_other", "code_0"}

\* _get_track_details: 'spotify:track:xxx' or the bare id.
TrackIdOf(sid) == IF Len(sid) = 3 /\ sid[1] = "spotify" /\ sid[2] = "track" THEN sid[3] ELSE sid[1]

NoDetails == [spotify_url |-> <<>>, cover_url |-> "", release_date |-> "", label |-> ""]

\* _get_track_details on a 200 response.
DetailsOf(sid) ==
  [spotify_url |-> <<"https://open.spotify.com/track/", TrackIdOf(sid)>>,
   cover_url |-> "cover300.jpg", release_date |-> "2020-01-01", label |-> "Label"]

\* enrich_tracks: the record appended for a match and the details found for it.
EnrichedOf(match, d) ==
  [title |-> match.title, artists |-> match.artists, score |-> match.score,
   spotify_url |-> d.spotify_url, cover_url |-> d.cover_url,
   release_date |-> d.release_date, label |-> d.label]

\* The step of the clock, and the last instant considered.
TickLen == TokenMargin \div 2
Horizon == MaxTicks * TickLen

\* The token endpoint's 200 payload: access_token, and expires_in when present.
NoToken == ""
TokenVals == {"tokA", "tokB"}
ExpiresFields == {<<>>, <<TokenMargin>>, <<TokenMargin + TickLen>>}
TokenResponses == [access_token : TokenVals, expires_in : ExpiresFields]
NoTokenResponse == [access_token |-> NoToken, expires_in |-> <<>>]

\* data.get('expires_in', 3600)
ExpiresIn(r) == IF r.expires_in = <<>> THEN DefaultExpiresIn ELSE r.expires_in[1]


\* ------------------------------------------------------------------- state
VARIABLES
  pc,                \* pc[s]: where worker s stands in scan_beat and its callees
  frame,             \* frame[s]: the local variables of the request s is serving
  resp,              \* resp[s]: the response scan_beat returned
  calls,             \* calls[s]: upstream calls the request has made, per service
  fs,                \* fs[p]: 0 when file p does not exist, else the worker that wrote it
  token,             \* SpotifyService.token
  token_expires_at,  \* SpotifyService.token_expires_at
  now,               \* time.time()
  api_key,           \* whether YOUTUBE_API_KEY is configured
  returned,          \* what the latest _get_token call to return has returned
  granted            \* when token_expires_at was last stored and with what expires_in

vars ==
  <<pc, frame, resp, calls, fs, token, token_expires_at, now, api_key, returned, granted>>

NoUrl == 0
NoBeat == [title |-> "", author |-> "", youtube_url |-> NoUrl, views_number |-> 0, thumbnail |-> ""]
NoResp ==
  [status |-> 0, success |-> FALSE, error |-> "", message |-> <<>>,
   uploaded_beat |-> NoBeat, matched_songs |-> <<>>, results_count |-> 0]
NoCalls == [meta |-> 0, apify |-> 0, asset |-> 0, acr |-> 0, token |-> 0, catalog |-> 0]

\* What is noted of a _get_token call while it runs: the slot, the clock and the
\* previously returned value when it began, whether it found the cache valid,
\* how many exchanges it made and whether the exchange failed.
NoCall ==
  [before |-> <<NoToken, 0>>, at |-> 0, prev |-> NoToken, cached |-> FALSE,
   exchanges |-> 0, failed |-> FALSE]

NoFrame ==
  [body |-> "",                   \* what the request carried: "absent", "object"
   raised |-> "",                 \* str(e) of the exception scan_beat caught
   fate |-> "",                   \* how the lookup of the latest track ended
   url |-> NoUrl,                 \* youtube_url
   video_info |-> NoInfo,         \* video_info
   made |-> {},                   \* which of "raw", "mp3" this request has written
   dl |-> <<>>,                   \* why download_audio returned None, if it did
   rc |-> "",                     \* ffmpeg_result.returncode: "ok" is 0, "fail" is not
   audio_path |-> NoPath,         \* audio_path (NoPath is None)
   acr |-> "",                    \* how the fingerprint request ended
   music |-> <<>>,                \* music_list of the fingerprint response, until the cleanup
   matches |-> <<>>,              \* matches
   enriched |-> <<>>,             \* enriched
   tokresp |-> NoTokenResponse,   \* data, the token endpoint's payload
   token |-> NoToken,             \* token in _get_track_details
   call |-> NoCall,               \* the _get_token call in progress
   cleaned |-> FALSE]             \* cleanup_audio has returned

Init ==
  /\ pc = [s \in Scans |-> "idle"]
  /\ frame = [s \in Scans |-> NoFrame]
  /\ resp = [s \in Scans |-> NoResp]
  /\ calls = [s \in Scans |-> NoCalls]
  /\ fs = [p \in Paths |-> 0]
  /\ token = NoToken
  /\ token_expires_at = 0
  /\ now = 0
  /\ api_key \in BOOLEAN
  /\ returned = NoToken
  /\ granted = <<>>

slot == <<token, token_expires_at, now, api_key, returned, granted>>
shared == <<fs, slot>>

Vid(s) == VideoIdOf(frame[s].url)
Raw(s) == RawPath(Vid(s))
Mp3(s) == Mp3Path(Vid(s))

Goto(s, l) == pc' = [pc EXCEPT ![s] = l]
Count(s, c) == calls' = [calls EXCEPT ![s][c] = @ + 1]

\* scan_beat returns (jsonify(body), status).
Respond(s, r) ==
  /\ resp' = [resp EXCEPT ![s] = r]
  /\ pc' = [pc EXCEPT ![s] = "done"]

\* The 'message' of each error response, a sequence of the pieces the code
\* joins (accents left out): app.py 62, 87; youtube_service.py 64, 71, 97,
\* 107, 138, 146.
MessageOf(error) ==
  CASE error = "missing_url" -> <<"youtube_url is required in request body">>
    [] error = "invalid_url" -> <<"URL YouTube invalide">>
    [] error = "missing_api_key" -> <<"YOUTUBE_API_KEY non configuree">>
    [] error = "api_error" -> <<"YouTube API error: ", "403">>
    [] error = "video_unavailable" -> <<"Video introuvable, privee ou supprimee">>
    [] error = "timeout" -> <<"YouTube API timeout">>
    [] error = "unknown_error" -> <<"Error: ", "Connection aborted.">>
    [] error = "download_failed" -> <<"Failed to download audio from YouTube">>

ErrorResp(status, error) ==
  [NoResp EXCEPT !.status = status, !.error = error, !.message = MessageOf(error)]

\* InternalErrorResp with the status of a bad request.
InternalErrorRespBadInput(e) ==
  [NoResp EXCEPT !.status = 400, !.error = "internal_error",
                 !.message = <<"Internal server error: ", e>>]

\* app.py 137-141: f'Internal server error: {str(e)}'.
InternalErrorResp(e) ==
  [NoResp EXCEPT !.status = 500, !.error = "internal_error",
                 !.message = <<"Internal server error: ", e>>]

UploadedBeat(f) ==
  [title |-> f.video_info.title, author |-> f.video_info.author,
   youtube_url |-> f.url, views_number |-> f.video_info.views,
   thumbnail |-> f.video_info.thumbnail]

\* NoMatchResp without the metadata of the video.
NoMatchRespWithoutBeat(f) ==
  [status |-> 200, success |-> TRUE, error |-> "", message |-> <<>>,
   uploaded_beat |-> NoBeat, matched_songs |-> <<>>, results_count |-> 0]

\* app.py 98-111: the report when the matcher returned nothing.
NoMatchResp(f) ==
  [status |-> 200, success |-> TRUE, error |-> "", message |-> <<>>,
   uploaded_beat |-> UploadedBeat(f),
   matched_songs |-> <<>>, results_count |-> 0]

\* ReportResp with the count of the no-match branch.
ReportRespZeroCount(f) ==
  [status |-> 200, success |-> TRUE, error |-> "", message |-> <<>>,
   uploaded_beat |-> UploadedBeat(f),
   matched_songs |-> f.enriched, results_count |-> 0]

\* app.py 122-133: the report with the enriched songs.
ReportResp(f) ==
  [status |-> 200, success |-> TRUE, error |-> "", message |-> <<>>,
   uploaded_beat |-> UploadedBeat(f),
   matched_songs |-> f.enriched, results_count |-> Len(f.enriched)]

\* ---------------------------------------------------------------- scan_beat
\* str(e) of what request.get_json() raises for a request without a body:
\* UnsupportedMediaType when the content type is not JSON (Flask from 2.1 on),
\* BadRequest when it is JSON and there is nothing to decode.
JsonErrors == {"415 Unsupported Media Type", "400 Bad Request"}

\* What request.get_json() does with a request: for one without a body it
\* returns None (Flask before 2.1, content type not JSON) or raises; for a JSON
\* object it returns the dict, which lacks the youtube_url key (NoUrl) or
\* carries a value.
Bodies(urls) ==
  [body : {"absent"}, json : {"None"} \cup JsonErrors, youtube_url : {NoUrl}]
    \cup [body : {"object"}, json : {"dict"}, youtube_url : {NoUrl} \cup urls]

\* app.py 56-65: request.get_json() and the youtube_url check; 135-141 when
\* get_json raises.
Request(s, urls) ==
  /\ pc[s] = "idle"
  /\ \E data \in Bodies(urls) :
       IF data.json \in JsonErrors
       THEN /\ Respond(s, InternalErrorResp(data.json))
            /\ frame' = [frame EXCEPT ![s].body = data.body, ![s].raised = data.json]
       ELSE IF data.json = "None" \/ data.youtube_url = NoUrl
       THEN /\ Respond(s, ErrorResp(400, "missing_url"))
            /\ frame' = [frame EXCEPT ![s].body = data.body]
       ELSE /\ frame' = [frame EXCEPT ![s].body = data.body, ![s].url = data.youtube_url]
            /\ Goto(s, "meta")
            /\ UNCHANGED resp
  /\ UNCHANGED <<calls, shared>>

\* app.py 135-141: exception e reached scan_beat's handler.
InternalError(s, e) ==
  /\ Respond(s, InternalErrorResp(e))
  /\ frame' = [frame EXCEPT ![s].raised = e]

\* str(e) of os.remove's FileNotFoundError, and of re.search's TypeError.
NoSuchFile == "[Errno 2] No such file or directory"
NotAString == "expected string or bytes-like object"

MetaFailures == {"api_error", "video_unavailable", "timeout", "unknown_error"}

\* MetaFailed without the early return: the scan goes on to download_audio.
MetaFailedGoesOn(s, e) ==
  /\ Goto(s, "stale_mp3")
  /\ UNCHANGED <<frame, resp>>

\* app.py 73-78: get_video_info reported failure e.
MetaFailed(s, e) ==
  /\ Respond(s, ErrorResp(400, e))
  /\ UNCHANGED frame

\* app.py 71, 80-82: get_video_info returned info; download_audio is entered.
MetaFound(s, info) ==
  /\ frame' = [frame EXCEPT ![s].video_info = info]
  /\ Goto(s, "stale_mp3")
  /\ UNCHANGED resp

\* get_video_info, and what scan_beat makes of its result.  re.search raises
\* on a youtube_url that is not a string, outside get_video_info's try
\* (youtube_service.py 58, 48-50).
GetVideoInfo(s, infos) ==
  /\ pc[s] = "meta"
  /\ IF frame[s].url = NonStringUrl
     THEN /\ InternalError(s, NotAString)
          /\ UNCHANGED calls
     ELSE IF Vid(s) = NoId
     THEN /\ MetaFailed(s, "invalid_url")
          /\ UNCHANGED calls
     ELSE IF ~api_key
     THEN /\ MetaFailed(s, "missing_api_key")
          /\ UNCHANGED calls
     ELSE /\ Count(s, "meta")
          /\ \/ \E e \in MetaFailures : MetaFailed(s, e)
             \/ \E info \in infos : MetaFound(s, info)
  /\ UNCHANGED shared

\* DownloadFailed answered with an empty report instead of the failure.
DownloadFailedDegrades(s, stage, why) ==
  /\ Respond(s, NoMatchResp(frame[s]))
  /\ frame' = [frame EXCEPT ![s].dl = <<stage, why>>]

\* app.py 84-89: download_audio returned None.  `stage` and `why` record where
\* it gave up.
DownloadFailed(s, stage, why) ==
  /\ Respond(s, ErrorResp(500, "download_failed"))
  /\ frame' = [frame EXCEPT ![s].dl = <<stage, why>>]

\* ----------------------------------------------------------- download_audio
\* youtube_service.py 164-166, ext = 'mp3': os.path.exists(f).
StaleMp3Check(s) ==
  /\ pc[s] = "stale_mp3"
  /\ Goto(s, IF fs[Mp3(s)] # 0 THEN "stale_mp3_rm" ELSE "stale_raw")
  /\ UNCHANGED <<frame, resp, calls, shared>>

\* youtube_service.py 166: os.remove(f), outside download_audio's try.
StaleMp3Remove(s) ==
  /\ pc[s] = "stale_mp3_rm"
  /\ IF fs[Mp3(s)] # 0
     THEN /\ fs' = [fs EXCEPT ![Mp3(s)] = 0]
          /\ Goto(s, "stale_raw")
          /\ UNCHANGED <<frame, resp>>
     ELSE /\ InternalError(s, NoSuchFile)
          /\ UNCHANGED fs
  /\ UNCHANGED <<calls, slot>>

\* youtube_service.py 167-168: os.path.exists(f_raw).
StaleRawCheck(s) ==
  /\ pc[s] = "stale_raw"
  /\ Goto(s, IF fs[Raw(s)] # 0 THEN "stale_raw_rm" ELSE "apify")
  /\ UNCHANGED <<frame, resp, calls, shared>>

\* youtube_service.py 169: os.remove(f_raw), outside download_audio's try.
StaleRawRemove(s) ==
  /\ pc[s] = "stale_raw_rm"
  /\ IF fs[Raw(s)] # 0
     THEN /\ fs' = [fs EXCEPT ![Raw(s)] = 0]
          /\ Goto(s, "apify")
          /\ UNCHANGED <<frame, resp>>
     ELSE /\ InternalError(s, NoSuchFile)
          /\ UNCHANGED fs
  /\ UNCHANGED <<calls, slot>>

\* How the actor run can end short of a download URL: the request times out
\* (314-317) or raises (319-321), the status is neither 200 nor 201 (199-202),
\* the dataset is empty (209-211), no candidate field holds a URL (243-247).
ApifyFailures == {"timeout", "error", "bad_status", "no_results", "no_url"}

\* youtube_service.py 190-249: the synchronous actor run.
ApifyRun(s) ==
  /\ pc[s] = "apify"
  /\ Count(s, "apify")
  /\ \/ \E o \in ApifyFailures : DownloadFailed(s, "apify", o)
     \/ /\ Goto(s, "asset")
        /\ UNCHANGED <<frame, resp>>
  /\ UNCHANGED shared

AssetFailures == {"timeout", "error", "bad_status"}

\* youtube_service.py 254-258: requests.get(download_url, stream=True).
AssetGet(s) ==
  /\ pc[s] = "asset"
  /\ Count(s, "asset")
  /\ \/ \E o \in AssetFailures : DownloadFailed(s, "asset", o)
     \/ /\ Goto(s, "raw_open")
        /\ UNCHANGED <<frame, resp>>
  /\ UNCHANGED shared

\* youtube_service.py 261-263: open(raw_path, 'wb') creates or truncates the file.
RawOpen(s) ==
  /\ pc[s] = "raw_open"
  /\ fs' = [fs EXCEPT ![Raw(s)] = s]
  /\ frame' = [frame EXCEPT ![s].made = @ \cup {"raw"}]
  /\ Goto(s, "raw_write")
  /\ UNCHANGED <<resp, calls, slot>>

\* RawWrite going on to the trim after the stream broke.
RawWriteGoesOn(s) ==
  /\ pc[s] = "raw_write"
  /\ frame' = [frame EXCEPT ![s].dl = <<"stream", "error">>]
  /\ Goto(s, "raw_size")
  /\ UNCHANGED <<resp, calls, shared>>

\* youtube_service.py 264-266: the streamed body is written, or the stream
\* breaks and iter_content raises (319-321).
RawWrite(s) ==
  /\ pc[s] = "raw_write"
  /\ \/ DownloadFailed(s, "stream", "error")
     \/ /\ Goto(s, "raw_size")
        /\ UNCHANGED <<frame, resp>>
  /\ UNCHANGED <<calls, shared>>

\* youtube_service.py 268: os.path.getsize(raw_path).
RawSize(s) ==
  /\ pc[s] = "raw_size"
  /\ IF fs[Raw(s)] # 0
     THEN /\ Goto(s, "ffmpeg")
          /\ UNCHANGED <<frame, resp>>
     ELSE DownloadFailed(s, "getsize", "error")
  /\ UNCHANGED <<calls, shared>>

\* How subprocess.run(['ffmpeg', ...], timeout=60) can end: it raises
\* (TimeoutExpired, or the binary cannot be started), or returns a non-zero or a
\* zero status.  `wrote` tells whether ffmpeg created the output file; a zero
\* status implies it did, and without an input file it cannot.
FfmpegEnds(rawThere) ==
  {e \in [how : {"raise", "fail", "ok"}, wrote : BOOLEAN] :
     /\ e.how = "ok" => e.wrote
     /\ ~rawThere => (e.how # "ok" /\ ~e.wrote)}

\* youtube_service.py 282-295: the trim.
Ffmpeg(s) ==
  /\ pc[s] = "ffmpeg"
  /\ \E e \in FfmpegEnds(fs[Raw(s)] # 0) :
       LET made == IF e.wrote THEN {"mp3"} ELSE {}
       IN /\ fs' = IF e.wrote THEN [fs EXCEPT ![Mp3(s)] = s] ELSE fs
          /\ IF e.how = "raise"
             THEN /\ Respond(s, ErrorResp(500, "download_failed"))
                  /\ frame' = [frame EXCEPT ![s].dl = <<"ffmpeg", "raise">>,
                                            ![s].made = @ \cup made]
             ELSE /\ frame' = [frame EXCEPT ![s].rc = e.how, ![s].made = @ \cup made]
                  /\ Goto(s, "raw_chk")
                  /\ UNCHANGED resp
  /\ UNCHANGED <<calls, slot>>

\* RawCleanCheck going straight to the return-code test: the raw file is left.
RawCleanSkipped(s) ==
  /\ pc[s] = "raw_chk"
  /\ Goto(s, "trim_chk")
  /\ UNCHANGED <<frame, resp, calls, shared>>

\* youtube_service.py 298: os.path.exists(raw_path).
RawCleanCheck(s) ==
  /\ pc[s] = "raw_chk"
  /\ Goto(s, IF fs[Raw(s)] # 0 THEN "raw_rm" ELSE "trim_chk")
  /\ UNCHANGED <<frame, resp, calls, shared>>

\* youtube_service.py 299: os.remove(raw_path), inside the try.
RawCleanRemove(s) ==
  /\ pc[s] = "raw_rm"
  /\ IF fs[Raw(s)] # 0
     THEN /\ fs' = [fs EXCEPT ![Raw(s)] = 0]
          /\ Goto(s, "trim_chk")
          /\ UNCHANGED <<frame, resp>>
     ELSE /\ DownloadFailed(s, "raw_rm", "error")
          /\ UNCHANGED fs
  /\ UNCHANGED <<calls, slot>>

\* youtube_service.py 302-312: the return code, then os.path.exists(mp3_path).
TrimCheck(s) ==
  /\ pc[s] = "trim_chk"
  /\ IF frame[s].rc # "ok"
     THEN DownloadFailed(s, "ffmpeg", "fail")
     ELSE IF fs[Mp3(s)] = 0
     THEN DownloadFailed(s, "mp3", "missing")
     ELSE /\ Goto(s, "mp3_size")
          /\ UNCHANGED <<frame, resp>>
  /\ UNCHANGED <<calls, shared>>

\* youtube_service.py 307-309: os.path.getsize(mp3_path), return mp3_path;
\* app.py 82-93: identify_audio is entered.
Mp3Size(s) ==
  /\ pc[s] = "mp3_size"
  /\ IF fs[Mp3(s)] # 0
     THEN /\ frame' = [frame EXCEPT ![s].audio_path = Mp3(s)]
          /\ Goto(s, "acr_exists")
          /\ UNCHANGED resp
     ELSE DownloadFailed(s, "mp3_size", "error")
  /\ UNCHANGED <<calls, shared>>

\* ----------------------------------------------------------- identify_audio
\* Identified with every failure raised to scan_beat instead of answered with [].
IdentifiedOrRaised(s, how, ml, found) ==
  IF how = "code_0"
  THEN /\ frame' = [frame EXCEPT ![s].acr = how, ![s].music = ml, ![s].matches = found]
       /\ Goto(s, "cleanup_chk")
       /\ UNCHANGED resp
  ELSE /\ frame' = [frame EXCEPT ![s].acr = how, ![s].raised = how]
       /\ Respond(s, InternalErrorResp(how))

\* identify_audio returned `found`, the fingerprint request having ended `how`
\* with music list `ml`.
Identified(s, how, ml, found) ==
  /\ frame' = [frame EXCEPT ![s].acr = how, ![s].music = ml, ![s].matches = found]
  /\ Goto(s, "cleanup_chk")
  /\ UNCHANGED resp

\* acrcloud_service.py 51-53: os.path.exists(audio_file_path).
AcrExists(s) ==
  /\ pc[s] = "acr_exists"
  /\ IF fs[frame[s].audio_path] # 0
     THEN /\ Goto(s, "acr_read")
          /\ UNCHANGED <<frame, resp>>
     ELSE Identified(s, "no_file", <<>>, <<>>)
  /\ UNCHANGED <<calls, shared>>

\* acrcloud_service.py 59-60: open and read the file, inside the try.
AcrRead(s) ==
  /\ pc[s] = "acr_read"
  /\ IF fs[frame[s].audio_path] # 0
     THEN /\ Goto(s, "acr_post")
          /\ UNCHANGED <<frame, resp>>
     ELSE Identified(s, "read_error", <<>>, <<>>)
  /\ UNCHANGED <<calls, shared>>

\* acrcloud_service.py 90-163: the signed request and what is made of its answer.
AcrPost(s, lists) ==
  /\ pc[s] = "acr_post"
  /\ Count(s, "acr")
  /\ \E how \in AcrOutcomes :
       IF how = "code_0"
       THEN \E ml \in lists : Identified(s, how, ml, FilterMatches(ml))
       ELSE Identified(s, how, <<>>, <<>>)
  /\ UNCHANGED shared

\* ------------------------------------------------------------ cleanup_audio
\* app.py 96 has returned; app.py 98-111 follow.  Of identify_audio's locals
\* only what it returned is left.
AfterCleanup(s) ==
  IF frame[s].matches = <<>>
  THEN /\ Respond(s, NoMatchResp(frame[s]))
       /\ frame' = [frame EXCEPT ![s].cleaned = TRUE, ![s].music = <<>>]
  ELSE /\ Goto(s, "enrich")
       /\ frame' = [frame EXCEPT ![s].cleaned = TRUE, ![s].music = <<>>]
       /\ UNCHANGED resp

\* youtube_service.py 326: os.path.exists(audio_path).
CleanupCheck(s) ==
  /\ pc[s] = "cleanup_chk"
  /\ IF fs[frame[s].audio_path] # 0
     THEN /\ Goto(s, "cleanup_rm")
          /\ UNCHANGED <<frame, resp>>
     ELSE AfterCleanup(s)
  /\ UNCHANGED <<calls, shared>>

\* Removed without the removal.
RemovedNothing(p) == fs

\* youtube_service.py 327: os.remove(audio_path); when the file is gone by now
\* the exception is logged (330-331) and the file is still gone.
Removed(p) == [fs EXCEPT ![p] = 0]

\* youtube_service.py 327-332.
CleanupRemove(s) ==
  /\ pc[s] = "cleanup_rm"
  /\ fs' = Removed(frame[s].audio_path)
  /\ AfterCleanup(s)
  /\ UNCHANGED <<calls, slot>>

\* ------------------------------------------------------------ enrich_tracks
\* The match the loop of enrich_tracks is at.
Current(f) == f.matches[Len(f.enriched) + 1]

\* spotify_service.py 172-180 (or 158-166): one record is appended, the lookup
\* having ended `how`; the frame of _get_track_details is gone.
Appended(f, d, how) ==
  [f EXCEPT !.enriched = Append(@, EnrichedOf(Current(f), d)), !.fate = how,
            !.token = NoToken, !.tokresp = NoTokenResponse, !.call = NoCall]

\* Enrich without the branch for a match that has no spotify_id: every match
\* is looked up.
EnrichLookingUpAll(s) ==
  /\ pc[s] = "enrich"
  /\ IF Len(frame[s].enriched) = Len(frame[s].matches)
     THEN /\ Respond(s, ReportResp(frame[s]))
          /\ UNCHANGED frame
     ELSE /\ Goto(s, "tok_check")
          /\ UNCHANGED <<frame, resp>>
  /\ UNCHANGED <<calls, shared>>

\* spotify_service.py 153-170, and app.py 117-133 when the loop is over.
Enrich(s) ==
  /\ pc[s] = "enrich"
  /\ IF Len(frame[s].enriched) = Len(frame[s].matches)
     THEN /\ Respond(s, ReportResp(frame[s]))
          /\ UNCHANGED frame
     ELSE IF Current(frame[s]).spotify_id = <<>>
     THEN /\ frame' = [frame EXCEPT ![s] = Appended(@, NoDetails, "no_id")]
          /\ UNCHANGED <<pc, resp>>
     ELSE /\ Goto(s, "tok_check")
          /\ UNCHANGED <<frame, resp>>
  /\ UNCHANGED <<calls, shared>>

\* --------------------------------------------------------------- _get_token
\* _get_token returns t to _get_track_details (spotify_service.py 84).
Returns(s, t, note) ==
  /\ frame' = [frame EXCEPT ![s].token = t, ![s].call = note]
  /\ returned' = t
  /\ Goto(s, "tok_ret")

\* CacheValid without the expiry test.
CacheValidIgnoringExpiry == token # NoToken

\* spotify_service.py 28: the cached token is served while time.time() is
\* before token_expires_at.
CacheValid == token # NoToken /\ now < token_expires_at

\* spotify_service.py 28-29.
TokenCheck(s) ==
  /\ pc[s] = "tok_check"
  /\ LET note == [NoCall EXCEPT !.before = <<token, token_expires_at>>, !.at = now,
                                !.prev = returned, !.cached = CacheValid]
     IN IF CacheValid
        THEN Returns(s, token, note)
        ELSE /\ frame' = [frame EXCEPT ![s].call = note]
             /\ Goto(s, "tok_post")
             /\ UNCHANGED returned
  /\ UNCHANGED <<resp, calls, fs, token, token_expires_at, now, api_key, granted>>

\* The exchange fails: a status other than 200 (47-49), or requests.post or
\* response.json() raises (59-61).
TokenFailures == {"bad_status", "error"}

\* ExchangeFailed discarding the stored token.
ExchangeFailedDiscards(s) ==
  /\ Returns(s, NoToken, [frame[s].call EXCEPT !.exchanges = @ + 1, !.failed = TRUE])
  /\ token' = NoToken
  /\ token_expires_at' = 0

\* spotify_service.py 47-49, 59-61: the slot is left as it is, None is returned.
ExchangeFailed(s) ==
  /\ Returns(s, NoToken, [frame[s].call EXCEPT !.exchanges = @ + 1, !.failed = TRUE])
  /\ UNCHANGED <<token, token_expires_at>>

\* spotify_service.py 37-51: the client-credentials exchange.
TokenPost(s, payloads) ==
  /\ pc[s] = "tok_post"
  /\ Count(s, "token")
  /\ \/ /\ \E o \in TokenFailures : TRUE
        /\ ExchangeFailed(s)
     \/ /\ \E r \in payloads :
             frame' = [frame EXCEPT ![s].tokresp = r, ![s].call.exchanges = @ + 1]
        /\ Goto(s, "tok_store")
        /\ UNCHANGED <<token, token_expires_at, returned>>
  /\ UNCHANGED <<resp, fs, now, api_key, granted>>

\* spotify_service.py 52: self.token = data.get('access_token').
TokenStore(s) ==
  /\ pc[s] = "tok_store"
  /\ token' = frame[s].tokresp.access_token
  /\ Goto(s, "tok_expiry")
  /\ UNCHANGED <<frame, resp, calls, fs, token_expires_at, now, api_key, returned, granted>>

\* The expiry without the safety margin.
NewExpiryNoMargin(r, t) == t + ExpiresIn(r)

\* spotify_service.py 53-54.
NewExpiry(r, t) == t + ExpiresIn(r) - TokenMargin

\* spotify_service.py 53-57: the expiry is stored and self.token returned.
TokenExpiry(s) ==
  /\ pc[s] = "tok_expiry"
  /\ token_expires_at' = NewExpiry(frame[s].tokresp, now)
  /\ granted' = <<now, ExpiresIn(frame[s].tokresp)>>
  /\ Returns(s, token, frame[s].call)
  /\ UNCHANGED <<resp, calls, fs, token, now, api_key>>

\* ------------------------------------------------------- _get_track_details
\* spotify_service.py 85-86: without a token the details are empty.
TokenReturned(s) ==
  /\ pc[s] = "tok_ret"
  /\ IF frame[s].token = NoToken
     THEN /\ frame' = [frame EXCEPT ![s] = Appended(@, NoDetails, "no_token")]
          /\ Goto(s, "enrich")
     ELSE /\ Goto(s, "catalog")
          /\ UNCHANGED frame
  /\ UNCHANGED <<resp, calls, shared>>

\* spotify_service.py 96-98 (a status other than 200) and 134-136 (requests.get
\* or response.json() raises).
CatalogFailures == {"bad_status", "error"}

\* CatalogGet with a failed lookup ending the batch: what was enriched so far
\* is reported.
CatalogGetAborting(s) ==
  /\ pc[s] = "catalog"
  /\ Count(s, "catalog")
  /\ \/ /\ \E o \in CatalogFailures : frame' = [frame EXCEPT ![s].fate = o]
        /\ Respond(s, ReportResp(frame[s]))
     \/ /\ frame' = [frame EXCEPT ![s] = Appended(@, DetailsOf(Current(@).spotify_id), "ok")]
        /\ Goto(s, "enrich")
        /\ UNCHANGED resp
  /\ UNCHANGED shared

\* spotify_service.py 89-136: the track lookup, then 172-180.
CatalogGet(s) ==
  /\ pc[s] = "catalog"
  /\ Count(s, "catalog")
  /\ \/ \E o \in CatalogFailures :
          frame' = [frame EXCEPT ![s] = Appended(@, NoDetails, o)]
     \/ frame' = [frame EXCEPT ![s] = Appended(@, DetailsOf(Current(@).spotify_id), "ok")]
  /\ Goto(s, "enrich")
  /\ UNCHANGED <<resp, shared>>

\* -------------------------------------------------------------- environment
\* The response has been sent; the worker takes the next request.
NextRequest(s) ==
  /\ pc[s] = "done"
  /\ pc' = [pc EXCEPT ![s] = "idle"]
  /\ frame' = [frame EXCEPT ![s] = NoFrame]
  /\ resp' = [resp EXCEPT ![s] = NoResp]
  /\ calls' = [calls EXCEPT ![s] = NoCalls]
  /\ UNCHANGED shared

\* The places where the code reads the clock (spotify_service.py 28 and 54).
ReadsClock(s) == pc[s] \in {"tok_check", "tok_expiry"}

\* Time passes.  Only what the clock shows when it is read matters, so the
\* passing of time is taken just before a reading.
Tick ==
  /\ \E s \in Scans : ReadsClock(s)
  /\ now + TickLen <= Horizon
  /\ now' = now + TickLen
  /\ UNCHANGED <<pc, frame, resp, calls, fs, token, token_expires_at, api_key, returned,
                 granted>>

\* What the single worker is sent: the watch URL of one video, a string that
\* is no URL and a value that is no string; the snippet that has views and a
\* thumbnail, any music list and any token payload.
AllInputs ==
  [urls |-> {1, 4, NonStringUrl}, infos |-> {i \in Snippets : i.views # 0},
   lists |-> MusicLists, payloads |-> TokenResponses]

\* One step of the request worker s is serving.
Step(s, in) ==
  \/ Request(s, in.urls)
  \/ GetVideoInfo(s, in.infos)
  \/ StaleMp3Check(s)
  \/ StaleMp3Remove(s)
  \/ StaleRawCheck(s)
  \/ StaleRawRemove(s)
  \/ ApifyRun(s)
  \/ AssetGet(s)
  \/ RawOpen(s)
  \/ RawWrite(s)
  \/ RawSize(s)
  \/ Ffmpeg(s)
  \/ RawCleanCheck(s)
  \/ RawCleanRemove(s)
  \/ TrimCheck(s)
  \/ Mp3Size(s)
  \/ AcrExists(s)
  \/ AcrRead(s)
  \/ AcrPost(s, in.lists)
  \/ CleanupCheck(s)
  \/ CleanupRemove(s)
  \/ Enrich(s)
  \/ TokenCheck(s)
  \/ TokenPost(s, in.payloads)
  \/ TokenStore(s)
  \/ TokenExpiry(s)
  \/ TokenReturned(s)
  \/ CatalogGet(s)

\* The design's model (one request is processed end to end before the next):
\* a single worker serves the requests one after the other.
Next ==
  \/ Step(1, AllInputs)
  \/ NextRequest(1)
  \/ Tick

Spec == Init /\ [][Next]_vars

\* What the services send while several workers are busy: the watch URLs of
\* two videos, one snippet, at most one music entry, payloads without expires_in.
ConcInputs ==
  [urls |-> {1, 3},
   infos |-> {CHOOSE i \in Snippets : i.views = 0},
   lists |-> SeqsUpTo({m \in MusicItems : m.score = MinScore /\ m.spotify # ""}, 1),
   payloads |-> {r \in TokenResponses : r.expires_in = <<>>}]

\* app.run serves each request on a thread of its own: the workers interleave
\* at every step, each serving one request.
NextConc ==
  \/ \E s \in Scans : Step(s, ConcInputs)
  \/ Tick

SpecConc == Init /\ [][NextConc]_vars

\* What the single worker is sent when the URL is what varies: every entry of
\* UrlTable and a value that is no string; one snippet, at most one music
\* entry, payloads without expires_in.
LookupInputs ==
  [urls |-> Urls \cup {NonStringUrl},
   infos |-> {CHOOSE i \in Snippets : i.views # 0},
   lists |-> SeqsUpTo({m \in MusicItems : m.score = MinScore /\ m.spotify # ""}, 1),
   payloads |-> {r \in TokenResponses : r.expires_in = <<>>}]

NextLookup ==
  \/ Step(1, LookupInputs)
  \/ NextRequest(1)
  \/ Tick

SpecLookup == Init /\ [][NextLookup]_vars

\* ------------------------------------------------------------------ claims
DownloadPcs ==
  {"stale_mp3", "stale_mp3_rm", "stale_raw", "stale_raw_rm", "apify", "asset",
   "raw_open", "raw_write", "raw_size", "ffmpeg", "raw_chk", "raw_rm", "trim_chk",
   "mp3_size"}
IdentifyPcs == {"acr_exists", "acr_read", "acr_post"}
TokenPcs == {"tok_check", "tok_post", "tok_store", "tok_expiry", "tok_ret"}
EnrichPcs == {"enrich", "catalog"} \cup TokenPcs

MetaErrors == MetaFailures \cup {"invalid_url", "missing_api_key"}

Acquiring(s) ==
  pc[s] \in DownloadPcs \/ calls[s].apify > 0 \/ calls[s].asset > 0 \/ frame[s].made # {}
Fingerprinting(s) == pc[s] \in IdentifyPcs \/ calls[s].acr > 0
Enriching(s) == pc[s] \in EnrichPcs \/ calls[s].token > 0 \/ calls[s].catalog > 0

\* C1: a stage is entered only after the stage before it succeeded: acquisition
\* only with the metadata found, the fingerprint stage only with an audio path
\* returned, enrichment only with a non-empty list of matches; and a request
\* whose metadata lookup returned a failure is answered with that failure,
\* having made no acquisition, fingerprint, token or catalog call (nor has one
\* whose lookup raised).
C1_StagesInOrder ==
  \A s \in Scans :
    /\ Acquiring(s) => frame[s].video_info \in Snippets /\ calls[s].meta = 1
    /\ Fingerprinting(s) => frame[s].audio_path # NoPath
    /\ Enriching(s) => frame[s].matches # <<>>
    /\ (pc[s] = "done" /\ frame[s].url # NoUrl /\ frame[s].video_info = NoInfo) =>
         /\ frame[s].raised = "" => resp[s].error \in MetaErrors /\ resp[s].status = 400
         /\ ~resp[s].success
         /\ [calls[s] EXCEPT !.meta = 0] = NoCalls
         /\ ~Acquiring(s) /\ ~Fingerprinting(s) /\ ~Enriching(s)

\* A request went through all four stages, each called in its turn.
C1_Witness ==
  \E s \in Scans :
    /\ pc[s] = "done"
    /\ \A c \in DOMAIN NoCalls : calls[s][c] >= 1

\* C2: once acquisition has returned an audio path, the trimmed file is removed
\* after the matcher has returned, whatever the matcher's outcome, before any
\* enrichment call and before the response.
C2_TrimmedDeleted ==
  \A s \in Scans :
    /\ (pc[s] = "done" /\ frame[s].audio_path # NoPath) =>
         frame[s].cleaned /\ fs[frame[s].audio_path] = 0
    /\ Enriching(s) => frame[s].cleaned /\ fs[frame[s].audio_path] = 0
    /\ frame[s].cleaned => frame[s].acr # "" /\ pc[s] \notin IdentifyPcs

\* The fingerprint request timed out on a trimmed file, and the response is out.
C2_Witness ==
  \E s \in Scans :
    /\ pc[s] = "done"
    /\ frame[s].audio_path # NoPath
    /\ "mp3" \in frame[s].made
    /\ frame[s].acr = "timeout"

\* The files a request has written that are still there as it wrote them.
Leftovers(s) ==
  {k \in frame[s].made : fs[<<k, Vid(s)>>] = s}

\* C3: when a request has been answered, neither the raw nor the trimmed file
\* it wrote still exists.
C3_NoFileOutlivesScan ==
  \A s \in Scans : pc[s] = "done" => Leftovers(s) = {}

\* C4: the file a request hands to the matcher is the one that request
\* produced, and it is still there until the matcher has read it.
C4_OwnAudioAtMatcher ==
  \A s \in Scans :
    pc[s] \in {"acr_exists", "acr_read"} => fs[frame[s].audio_path] = s

\* C5: a _get_token call made while the clock is before the stored expiry
\* makes no exchange and returns the value the previous call returned; a call
\* made at or after the stored expiry makes exactly one exchange.
C5_TokenCache ==
  \A s \in Scans :
    pc[s] = "tok_ret" =>
      LET c == frame[s].call
      IN /\ c.at < c.before[2] =>
              /\ c.exchanges = 0
              /\ frame[s].token = c.prev
              /\ frame[s].token # NoToken
         /\ c.at >= c.before[2] => c.exchanges = 1

\* A call was served from the cache.
C5_Witness ==
  \E s \in Scans :
    /\ pc[s] = "tok_ret"
    /\ frame[s].call.at < frame[s].call.before[2]
    /\ frame[s].call.prev \in TokenVals

\* C6: of several _get_token calls in progress at once that found no valid
\* token, at most one makes an exchange, and they return the same token.
C6_SingleFlight ==
  \A s, t \in Scans :
    (/\ s # t
     /\ pc[s] = "tok_ret" /\ pc[t] = "tok_ret"
     /\ ~frame[s].call.cached /\ ~frame[t].call.cached
     /\ ~frame[s].call.failed /\ ~frame[t].call.failed) =>
      /\ frame[s].call.exchanges + frame[t].call.exchanges <= 1
      /\ frame[s].token = frame[t].token

\* C7: a _get_token call whose exchange failed returns None and leaves the
\* stored token and the stored expiry as they were when the call began.
C7_FailedRefreshKeepsSlot ==
  \A s \in Scans :
    (pc[s] = "tok_ret" /\ frame[s].call.failed) =>
      /\ frame[s].token = NoToken
      /\ <<token, token_expires_at>> = frame[s].call.before

\* An exchange failed while an expired token was stored.
C7_Witness ==
  \E s \in Scans :
    /\ pc[s] = "tok_ret"
    /\ frame[s].call.failed
    /\ frame[s].call.before[1] \in TokenVals

\* C8: the matcher's output for a status-0 response is the candidates with a
\* score of at least 85, in the order of the response: none below 85 is kept
\* and none at 85 is dropped (seen when identify_audio has just returned).
C8_ScoreFilter ==
  \A s \in Scans :
    (frame[s].acr = "code_0" /\ ~frame[s].cleaned) =>
      LET ml == frame[s].music
          out == frame[s].matches
          kept == {i \in 1..Len(ml) : ml[i].score >= 85}
          rank(i) == Cardinality({j \in kept : j <= i})
      IN /\ Len(out) = Cardinality(kept)
         /\ \A j \in 1..Len(out) : out[j].score >= 85
         /\ \A i \in kept :
              /\ out[rank(i)].score = ml[i].score
              /\ out[rank(i)].title = ml[i].title
              /\ (out[rank(i)].spotify_id = <<>>) <=> (ml[i].spotify = "")

\* A response with a candidate at 84 before one at exactly 85.
C8_Witness ==
  \E s \in Scans :
    /\ frame[s].acr = "code_0"
    /\ Len(frame[s].music) = 2
    /\ frame[s].music[1].score = 84
    /\ frame[s].music[2].score = 85
    /\ Len(frame[s].matches) = 1

\* C9: in every success report results_count is the number of matched_songs.
C9_CountIsLength ==
  \A s \in Scans :
    (pc[s] = "done" /\ resp[s].success) =>
      resp[s].results_count = Len(resp[s].matched_songs)

\* A report with two enriched songs.
C9_Witness ==
  \E s \in Scans :
    /\ pc[s] = "done"
    /\ resp[s].success
    /\ Len(resp[s].matched_songs) = 2

\* C10: when the actor run times out the scan is answered download_failed and
\* the fingerprint service is not called.
C10_ApifyTimeoutAborts ==
  \A s \in Scans :
    frame[s].dl = <<"apify", "timeout">> =>
      /\ pc[s] = "done"
      /\ resp[s].error = "download_failed"
      /\ resp[s].status = 500
      /\ ~resp[s].success
      /\ calls[s].acr = 0
      /\ frame[s].acr = ""

\* The actor run timed out.
C10_Witness ==
  \E s \in Scans :
    /\ frame[s].dl = <<"apify", "timeout">>
    /\ calls[s].apify = 1

\* C11: as stated, a request whose acquisition returned no audio is answered
\* with a success report carrying the resolved metadata and zero matches.
C11_AcquisitionFailureDegrades ==
  \A s \in Scans :
    (pc[s] = "done" /\ frame[s].dl # <<>>) => resp[s] = NoMatchResp(frame[s])

\* C11, amended: when acquisition returns no audio, for whatever reason, the
\* scan stops there: the answer is download_failed with status 500, it carries
\* neither metadata nor matches, and no fingerprint, token or catalog call is
\* made.
C11_AcquisitionFailureAborts ==
  \A s \in Scans :
    frame[s].dl # <<>> =>
      /\ pc[s] = "done"
      /\ frame[s].audio_path = NoPath
      /\ resp[s] = ErrorResp(500, "download_failed")
      /\ resp[s].uploaded_beat = NoBeat
      /\ resp[s].matched_songs = <<>>
      /\ calls[s].acr = 0 /\ calls[s].token = 0 /\ calls[s].catalog = 0

\* The trim returned a non-zero status for a video whose metadata was found.
C11_Witness ==
  \E s \in Scans :
    /\ pc[s] = "done"
    /\ frame[s].dl = <<"ffmpeg", "fail">>
    /\ frame[s].video_info \in Snippets

\* How identify_audio can end without a status-0 answer.
IdentifyFailures == (AcrOutcomes \ {"code_0"}) \cup {"no_file", "read_error"}

C13_NoMatchReport ==
  \A s \in Scans :
    (frame[s].acr # "" /\ frame[s].matches = <<>>) =>
      /\ pc[s] \in {"cleanup_chk", "cleanup_rm", "done"}
      /\ calls[s].token = 0 /\ calls[s].catalog = 0
      /\ frame[s].call = NoCall /\ frame[s].fate = ""
      /\ pc[s] = "done" =>
           /\ resp[s].success /\ resp[s].status = 200 /\ resp[s].error = ""
           /\ frame[s].video_info \in Snippets
           /\ resp[s].uploaded_beat.title = frame[s].video_info.title
           /\ resp[s].uploaded_beat.author = frame[s].video_info.author
           /\ resp[s].uploaded_beat.views_number = frame[s].video_info.views
           /\ resp[s].uploaded_beat.thumbnail = frame[s].video_info.thumbnail
           /\ resp[s].uploaded_beat.youtube_url = frame[s].url
           /\ frame[s].url \in Urls
           /\ resp[s].matched_songs = <<>>
           /\ resp[s].results_count = 0

\* The fingerprint service answered 1001 and the report is out.
C13_Witness ==
  \E s \in Scans :
    /\ pc[s] = "done"
    /\ frame[s].acr = "code_1001"
    /\ resp[s].success
    /\ resp[s].uploaded_beat.title = "Beat B"

\* The ways the lookup of a track that carries a catalog id can fail: no token,
\* a catalog answer other than 200, a catalog request that raises.
LookupFailures == {"no_token"} \cup CatalogFailures

\* C14: enrich_tracks appends one record per match, in the order of the
\* matches, each with the title, artists and score of its match; a track whose
\* lookup failed gets the empty string for catalog URL, cover URL, release date
\* and label; and whatever failed, the batch runs to its end: the report has
\* one song per match and no exception has reached scan_beat.
C14_EnrichOnePerMatch ==
  \A s \in Scans :
    LET f == frame[s]
        n == Len(f.enriched)
    IN /\ n <= Len(f.matches)
       /\ \A i \in 1..n :
            /\ f.enriched[i].title = f.matches[i].title
            /\ f.enriched[i].artists = f.matches[i].artists
            /\ f.enriched[i].score = f.matches[i].score
       /\ f.fate \in LookupFailures =>
            /\ n >= 1
            /\ f.matches[n].spotify_id # <<>>
            /\ f.enriched[n].spotify_url = <<>>
            /\ f.enriched[n].cover_url = ""
            /\ f.enriched[n].release_date = ""
            /\ f.enriched[n].label = ""
            /\ pc[s] \in EnrichPcs \cup {"done"}
       /\ (pc[s] = "done" /\ f.matches # <<>>) =>
            /\ f.raised = ""
            /\ resp[s].success
            /\ resp[s].matched_songs = f.enriched
            /\ n = Len(f.matches)

\* The lookup of the first of two tracks failed, the second was found, and
\* the report is out.
C14_Witness ==
  \E s \in Scans :
    /\ pc[s] = "done"
    /\ Len(frame[s].matches) = 2
    /\ frame[s].matches[1].spotify_id # <<>>
    /\ Len(resp[s].matched_songs) = 2
    /\ resp[s].matched_songs[1].spotify_url = <<>>
    /\ resp[s].matched_songs[2].spotify_url # <<>>
    /\ frame[s].fate = "ok"

\* C15: a match without a catalog track id gets a record with its title,
\* artists and score and the empty string in every catalog field, no exception
\* reaches scan_beat, and nothing is asked of the token endpoint or the
\* catalog for it: _get_token is entered only for a match that carries an id,
\* and the token and catalog requests a scan has made number at most the
\* matches with an id it has come to.
C15_NoIdNoLookup ==
  \A s \in Scans :
    LET f == frame[s]
        n == Len(f.enriched)
        withId == {i \in 1..Len(f.matches) : f.matches[i].spotify_id # <<>>}
        lookingUp == pc[s] \in TokenPcs \cup {"catalog"}
        done == Cardinality({i \in withId : i <= n})
    IN /\ lookingUp => (n + 1) \in withId
       /\ f.call # NoCall => (n + 1) \in withId
       /\ calls[s].catalog <= done
       /\ calls[s].token <= done + (IF lookingUp THEN 1 ELSE 0)
       /\ withId = {} => calls[s].token = 0 /\ calls[s].catalog = 0
       /\ \A i \in (1..n) \ withId :
            /\ f.enriched[i].title = f.matches[i].title
            /\ f.enriched[i].artists = f.matches[i].artists
            /\ f.enriched[i].score = f.matches[i].score
            /\ f.enriched[i].spotify_url = <<>>
            /\ f.enriched[i].cover_url = ""
            /\ f.enriched[i].release_date = ""
            /\ f.enriched[i].label = ""
       /\ f.fate = "no_id" => n \notin withId /\ f.raised = ""

\* Of two matches the first had no catalog id and the second was looked up:
\* one catalog request in all.
C15_Witness ==
  \E s \in Scans :
    /\ pc[s] = "done"
    /\ Len(frame[s].matches) = 2
    /\ frame[s].matches[1].spotify_id = <<>>
    /\ frame[s].matches[2].spotify_id # <<>>
    /\ Len(resp[s].matched_songs) = 2
    /\ calls[s].catalog = 1

\* C16: within one scan the metadata API, the actor run, the asset download
\* and the fingerprint endpoint are each requested at most once, the token
\* endpoint at most once, and the catalog at most once for each match the
\* enrichment has come to.
C16_NoRetries ==
  \A s \in Scans :
    /\ calls[s].meta <= 1
    /\ calls[s].apify <= 1
    /\ calls[s].asset <= 1
    /\ calls[s].acr <= 1
    /\ calls[s].token <= 1
    /\ calls[s].catalog <= Len(frame[s].enriched)

\* C17: download_audio never raises to scan_beat: a scan that entered it and
\* got no audio path got None from it, whatever failed (the actor run, the
\* asset download, the trim, the removal of stale files), and is answered
\* download_failed.
C17_AcquireReturnsNull ==
  \A s \in Scans :
    (pc[s] = "done" /\ frame[s].video_info \in Snippets /\ frame[s].audio_path = NoPath) =>
      /\ frame[s].dl # <<>>
      /\ frame[s].raised = ""
      /\ resp[s].error = "download_failed"

\* C18: once subprocess.run has returned, with a zero or a non-zero status,
\* the raw file is gone from the return-code test on, and so when
\* download_audio returns and ever after in the scan.
C18_RawRemovedAfterTrim ==
  \A s \in Scans :
    (frame[s].rc \in {"ok", "fail"} /\ pc[s] \notin {"raw_chk", "raw_rm"}) =>
      /\ "raw" \in frame[s].made
      /\ fs[Raw(s)] = 0

\* The trim returned a non-zero status and download_audio has returned None.
C18_Witness ==
  \E s \in Scans :
    /\ pc[s] = "done"
    /\ frame[s].rc = "fail"
    /\ frame[s].dl = <<"ffmpeg", "fail">>
    /\ "mp3" \in frame[s].made

\* C19: a request without a body, or whose body has no youtube_url field, is
\* answered missing_url (400), and no metadata, actor, asset, fingerprint,
\* token or catalog call has been made for it.
C19_MissingUrl ==
  \A s \in Scans :
    (pc[s] = "done" /\ (frame[s].body = "absent" \/ frame[s].url = NoUrl)) =>
      /\ resp[s] = ErrorResp(400, "missing_url")
      /\ calls[s] = NoCalls

\* C20: an exception that reaches scan_beat's handler is answered
\* internal_error with status 500, the scan ends with that answer, and no
\* part of the answer's message is the text of the exception.
C20_GenericInternalError ==
  \A s \in Scans :
    frame[s].raised # "" =>
      /\ pc[s] = "done"
      /\ resp[s].error = "internal_error"
      /\ resp[s].status = 500
      /\ ~resp[s].success
      /\ \A i \in 1..Len(resp[s].message) : resp[s].message[i] # frame[s].raised

\* The error categories of scan_beat's failure responses, by status.
BadInputErrors == {"missing_url"} \cup MetaErrors
ServerFaultErrors == {"download_failed", "internal_error"}

\* C21: a response is a success (200, no error) or a failure with one error
\* category and the status of its class: missing_url and invalid_url (and
\* the other failures of the metadata lookup) go with 400, download_failed
\* and internal_error with 500; a failure carries a message and no report.
C21_ErrorClasses ==
  \A s \in Scans :
    pc[s] = "done" =>
      /\ resp[s].success <=> resp[s].error = ""
      /\ resp[s].success => resp[s].status = 200
      /\ ~resp[s].success =>
           /\ resp[s].error \in BadInputErrors \cup ServerFaultErrors
           /\ resp[s].error \in {"missing_url", "invalid_url"} => resp[s].status = 400
           /\ resp[s].error \in BadInputErrors => resp[s].status = 400
           /\ resp[s].error \in ServerFaultErrors => resp[s].status = 500
           /\ resp[s].message # <<>>
           /\ resp[s].uploaded_beat = NoBeat /\ resp[s].matched_songs = <<>>

\* An exception was answered internal_error.
C21_Witness ==
  \E s \in Scans :
    /\ pc[s] = "done"
    /\ resp[s].error = "internal_error"
    /\ frame[s].raised = NotAString

\* C22: get_video_info always returns: it has not raised, and a failure it
\* returns is of one kind, decided in this order: invalid_url when no
\* identifier is found and missing_api_key when no key is configured, both
\* without a request to the metadata API; otherwise one request is made and
\* the failure is api_error, video_unavailable, timeout or unknown_error.
C22_LookupClassifies ==
  \A s \in Scans :
    (pc[s] \notin {"idle", "meta"} /\ frame[s].url # NoUrl) =>
      /\ frame[s].raised # NotAString
      /\ frame[s].video_info = NoInfo => resp[s].error \in MetaErrors
      /\ Vid(s) = NoId => resp[s].error = "invalid_url" /\ calls[s].meta = 0
      /\ (Vid(s) # NoId /\ ~api_key) =>
           resp[s].error = "missing_api_key" /\ calls[s].meta = 0
      /\ (Vid(s) # NoId /\ api_key) =>
           /\ calls[s].meta = 1
           /\ frame[s].video_info = NoInfo => resp[s].error \in MetaFailures

\* The identifiers a string carries in one of the accepted shapes: the 11
\* identifier characters after a "v=", those after a final "youtu.be/", and
\* the string itself when it is 11 identifier characters.
ShapeIds(u) ==
  {SubSeq(u, i + 2, i + 1 + IdLen) :
     i \in {j \in 1..Len(u) : LitAt(u, j, <<"v", "=">>) /\ IdAt(u, j + 2)}}
  \cup (IF /\ Len(u) = IdLen
           /\ IdAt(u, 1)
        THEN {u} ELSE {})
  \cup (IF /\ LitAt(u, Len(u) - IdLen - 8, <<"y", "o", "u", "t", "u", ".", "b", "e", "/">>)
           /\ IdAt(u, Len(u) - IdLen + 1)
        THEN {SubSeq(u, Len(u) - IdLen + 1, Len(u))} ELSE {})

ShapeIdTable == [n \in Urls |-> ShapeIds(UrlTable[n])]

\* C23: for a youtube_url that carries an identifier in an accepted shape
\* (v=ID anywhere, a final youtu.be/ID, or the bare ID), the identifier the
\* lookup has extracted is that identifier, whatever precedes it in the URL.
C23_ExtractsCarriedId ==
  \A s \in Scans :
    (pc[s] \notin {"idle", "meta"} /\ frame[s].url \in Urls) =>
      \A id \in ShapeIdTable[frame[s].url] : Vid(s) = id

\* C24: for a youtube_url that is of none of the accepted shapes, no
\* identifier is extracted and the scan has answered invalid_url without a
\* call to any upstream service.
C24_NoShapeFailsFast ==
  \A s \in Scans :
    (pc[s] \notin {"idle", "meta"} /\ frame[s].url \in Urls
       /\ ShapeIdTable[frame[s].url] = {}) =>
      /\ Vid(s) = NoId
      /\ resp[s].error = "invalid_url"
      /\ \A k \in DOMAIN calls[s] : calls[s][k] = 0

\* C25: once download_audio has returned to scan_beat in a request during
\* which it created the raw file, that raw file no longer exists, whether the
\* download returned a path or None.
C25_RawDeletedBeforeReturn ==
  \A s \in Scans :
    ("raw" \in frame[s].made /\ pc[s] \notin DownloadPcs) =>
      "raw" \notin Leftovers(s)

\* C26: the stored expiry is the time of the exchange plus expires_in minus
\* 60 seconds; a _get_token call that returns without an exchange returns the
\* stored token and began strictly before the stored expiry; and no call
\* returns without an exchange while the stored token was granted with an
\* expires_in of 60 seconds or less.
C26_ExpiryAndCache ==
  /\ granted # <<>> => token_expires_at = granted[1] + granted[2] - 60
  /\ \A s \in Scans :
       (pc[s] = "tok_ret" /\ frame[s].call.exchanges = 0) =>
         LET c == frame[s].call
         IN /\ frame[s].token = c.before[1]
            /\ frame[s].token # NoToken
            /\ c.at < c.before[2]
            /\ granted # <<>>
            /\ granted[2] > 60

\* A call began when the stored token, granted with an expires_in of 60
\* seconds or less, was still in the slot, and it made an exchange.
C26_Witness ==
  \E s \in Scans :
    /\ pc[s] = "tok_ret"
    /\ frame[s].call.before[1] # NoToken
    /\ frame[s].call.before[2] <= frame[s].call.at - TickLen
    /\ frame[s].call.exchanges = 1
    /\ ~frame[s].call.failed
    /\ ExpiresIn(frame[s].tokresp) <= 60
    /\ token_expires_at = now + ExpiresIn(frame[s].tokresp) - 60
====
